---- MODULE Spec2Model ----
(***************************************************************************)
(* A model of o3_templates.py: the employee-record normalizer              *)
(* (get_employee_by_id and its lookups), the placeholder substitution      *)
(* engine (fill_template) and the Streamlit request handler (main).        *)
(*                                                                         *)
(* Text is a sequence of one-character strings, so that strip, split,      *)
(* replace and strptime are computed character by character.               *)
(***************************************************************************)
EXTENDS Integers, Sequences, FiniteSets, TLC

VARIABLES
    pc,                \* position of the running function
    employee,          \* employee_data_list[0]: the raw hr.employee record
    store,             \* what the record store answers to each call
    result,            \* return value of get_employee_by_id
    template_file,     \* state of the template on disk: "ok", "missing", "corrupt"
    template,          \* the document stored in the template file
    doc,               \* the in-memory Document fill_template mutates
    employee_data,     \* fill_template's employee_data argument
    is_arabic,         \* fill_template's is_arabic argument
    doc_bytes,         \* return value of fill_template
    session_state,     \* st.session_state
    connection_cache,  \* st.cache_resource entry of get_odoo_connection
    screen,            \* what the last script run rendered
    args               \* the arguments of a helper that is called by itself

vars == <<pc, employee, store, result, template_file, template, doc,
          employee_data, is_arabic, doc_bytes, session_state,
          connection_cache, screen, args>>

-----------------------------------------------------------------------------
(* Python str methods, on sequences of characters.                         *)

Whitespace == {" ", "\t", "\n", "\r"}

RECURSIVE lstrip(_)
lstrip(s) == IF s # <<>> /\ Head(s) \in Whitespace THEN lstrip(Tail(s)) ELSE s

RECURSIVE rstrip(_)
rstrip(s) ==
    IF s # <<>> /\ s[Len(s)] \in Whitespace
    THEN rstrip(SubSeq(s, 1, Len(s) - 1))
    ELSE s

\* str.strip()
strip(s) == rstrip(lstrip(s))

\* str.split(sep) for a one-character separator: the pieces between
\* separators, empty pieces included.
RECURSIVE split_sep(_, _)
split_sep(s, sep) ==
    IF \A i \in 1..Len(s) : s[i] # sep
    THEN <<s>>
    ELSE LET i == CHOOSE k \in 1..Len(s) :
                      s[k] = sep /\ \A j \in 1..(k - 1) : s[j] # sep
         IN  <<SubSeq(s, 1, i - 1)>> \o split_sep(SubSeq(s, i + 1, Len(s)), sep)

\* str.split() without arguments: the whitespace-delimited tokens.
RECURSIVE split(_)
split(s) ==
    LET t == lstrip(s)
    IN  IF t = <<>>
        THEN <<>>
        ELSE IF \A i \in 1..Len(t) : t[i] \notin Whitespace
             THEN <<t>>
             ELSE LET i == CHOOSE k \in 1..Len(t) :
                               t[k] \in Whitespace
                               /\ \A j \in 1..(k - 1) : t[j] \notin Whitespace
                  IN  <<SubSeq(t, 1, i - 1)>> \o split(SubSeq(t, i + 1, Len(t)))

\* old in text
Contains(text, old) ==
    \E i \in 1..(Len(text) - Len(old) + 1) :
        text[i] = old[1] /\ SubSeq(text, i, i + Len(old) - 1) = old

\* str.replace(old, new): every non-overlapping occurrence, left to right.
RECURSIVE replace(_, _, _)
replace(text, old, new) ==
    IF Len(text) < Len(old)
    THEN text
    ELSE IF text[1] = old[1] /\ SubSeq(text, 1, Len(old)) = old
         THEN new \o replace(SubSeq(text, Len(old) + 1, Len(text)), old, new)
         ELSE <<text[1]>> \o replace(Tail(text), old, new)

\* sep.join(parts)
RECURSIVE join(_, _)
join(sep, parts) ==
    IF parts = <<>> THEN <<>>
    ELSE IF Len(parts) = 1 THEN parts[1]
    ELSE parts[1] \o sep \o join(sep, Tail(parts))

\* "".join(parts)
RECURSIVE concat(_)
concat(parts) == IF parts = <<>> THEN <<>> ELSE Head(parts) \o concat(Tail(parts))

DigitChars == <<"0", "1", "2", "3", "4", "5", "6", "7", "8", "9">>
IsDigit(c) == \E i \in 1..10 : DigitChars[i] = c
DigitVal(c) == (CHOOSE i \in 1..10 : DigitChars[i] = c) - 1

\* str(n) of a non-negative int
RECURSIVE IntStr(_)
IntStr(n) == IF n < 10 THEN <<DigitChars[n + 1]>>
             ELSE IntStr(n \div 10) \o <<DigitChars[(n % 10) + 1]>>

\* int(digits)
RECURSIVE StrInt(_)
StrInt(s) == IF s = <<>> THEN 0
             ELSE 10 * StrInt(SubSeq(s, 1, Len(s) - 1)) + DigitVal(s[Len(s)])

-----------------------------------------------------------------------------
(* Python values as they arrive over XML-RPC: a key may be absent from a   *)
(* dict, or hold None, False, a str, an int, a float or a list.            *)

PyVal(t, s, n, l) == [t |-> t, s |-> s, n |-> n, l |-> l]
Absent  == PyVal("absent", <<>>, 0, <<>>)    \* the key is not in the dict
None    == PyVal("none", <<>>, 0, <<>>)
PyFalse == PyVal("bool", <<>>, 0, <<>>)      \* Odoo's value of an unset field
StrV(s)   == PyVal("str", s, 0, <<>>)
IntV(n)   == PyVal("int", <<>>, n, <<>>)
FloatV(n) == PyVal("float", <<>>, n, <<>>)    \* the float n.0
ListV(l)  == PyVal("list", <<>>, 0, l)
\* the marker of an exception leaving an expression
Raise   == PyVal("raise", <<>>, 0, <<>>)

EmptyStr == StrV(<<>>)

\* bool(v)
Truthy(v) ==
    CASE v.t = "str"   -> v.s # <<>>
      [] v.t = "int"   -> v.n # 0
      [] v.t = "float" -> v.n # 0
      [] v.t = "list"  -> v.l # <<>>
      [] OTHER         -> FALSE

\* dict.get(key, default)
Get(d, key, default) == IF d[key].t = "absent" THEN default ELSE d[key]

\* repr(v) of a list element
Repr(v) ==
    CASE v.t = "str"   -> <<"'">> \o v.s \o <<"'">>
      [] v.t = "int"   -> IntStr(v.n)
      [] v.t = "float" -> IntStr(v.n) \o <<".", "0">>
      [] v.t = "none"  -> <<"N", "o", "n", "e">>
      [] OTHER         -> <<"F", "a", "l", "s", "e">>

ReprSeq(l) == [i \in 1..Len(l) |-> Repr(l[i])]

\* str(v)
PyStr(v) ==
    CASE v.t = "str"   -> v.s
      [] v.t = "int"   -> IntStr(v.n)
      [] v.t = "float" -> IntStr(v.n) \o <<".", "0">>
      [] v.t = "none"  -> <<"N", "o", "n", "e">>
      [] v.t = "list"  -> <<"[">> \o join(<<",", " ">>, ReprSeq(v.l)) \o <<"]">>
      [] OTHER         -> <<"F", "a", "l", "s", "e">>

\* v.strip(): AttributeError unless v is a str
StripOf(v) == IF v.t = "str" THEN StrV(strip(v.s)) ELSE Raise

-----------------------------------------------------------------------------
(* datetime.datetime.strptime(raw, "%Y-%m-%d") and strftime("%d/%m/%Y").   *)
(* _strptime matches the regex                                             *)
(*   (\d\d\d\d)-(1[0-2]|0[1-9]|[1-9])-(3[01]|[12]\d|0[1-9]|[1-9]| [1-9])   *)
(* at the start of the string and raises ValueError when text remains.     *)

NonZeroDigit(c) == IsDigit(c) /\ c # "0"

\* characters the month group matches at position i (0: no match)
MonthLen(s, i) ==
    IF i + 1 <= Len(s) /\ s[i] = "1" /\ s[i + 1] \in {"0", "1", "2"} THEN 2
    ELSE IF i + 1 <= Len(s) /\ s[i] = "0" /\ NonZeroDigit(s[i + 1]) THEN 2
    ELSE IF i <= Len(s) /\ NonZeroDigit(s[i]) THEN 1
    ELSE 0

\* characters the day group matches at position i (0: no match)
DayLen(s, i) ==
    IF i + 1 <= Len(s) /\ s[i] = "3" /\ s[i + 1] \in {"0", "1"} THEN 2
    ELSE IF i + 1 <= Len(s) /\ s[i] \in {"1", "2"} /\ IsDigit(s[i + 1]) THEN 2
    ELSE IF i + 1 <= Len(s) /\ s[i] = "0" /\ NonZeroDigit(s[i + 1]) THEN 2
    ELSE IF i <= Len(s) /\ NonZeroDigit(s[i]) THEN 1
    ELSE IF i + 1 <= Len(s) /\ s[i] = " " /\ NonZeroDigit(s[i + 1]) THEN 2
    ELSE 0

IsLeap(y) == (y % 4 = 0 /\ y % 100 # 0) \/ y % 400 = 0

DaysInMonth(y, m) ==
    IF m = 2 THEN (IF IsLeap(y) THEN 29 ELSE 28)
    ELSE IF m \in {4, 6, 9, 11} THEN 30 ELSE 31

NoDate == [ok |-> FALSE, y |-> 0, m |-> 0, d |-> 0]

\* the datetime strptime returns, or NoDate when it raises ValueError
strptime(s) ==
    IF ~(Len(s) >= 5 /\ (\A i \in 1..4 : IsDigit(s[i])) /\ s[5] = "-")
    THEN NoDate
    ELSE LET ml == MonthLen(s, 6)
         IN  IF ml = 0 \/ ~(6 + ml <= Len(s) /\ s[6 + ml] = "-")
             THEN NoDate
             ELSE LET dl == DayLen(s, 7 + ml)
                      y  == StrInt(SubSeq(s, 1, 4))
                      m  == StrInt(SubSeq(s, 6, 5 + ml))
                      d  == StrInt(lstrip(SubSeq(s, 7 + ml, 6 + ml + dl)))
                  IN  IF dl = 0 \/ 6 + ml + dl # Len(s)      \* unconverted data remains
                      THEN NoDate
                      ELSE IF y < 1 \/ d > DaysInMonth(y, m)  \* datetime(y, m, d) raises
                           THEN NoDate
                           ELSE [ok |-> TRUE, y |-> y, m |-> m, d |-> d]

Pad2(n) == IF n < 10 THEN <<"0">> \o IntStr(n) ELSE IntStr(n)

\* dt.strftime("%d/%m/%Y"), the year as glibc prints it
strftime(dt) == Pad2(dt.d) \o <<"/">> \o Pad2(dt.m) \o <<"/">> \o IntStr(dt.y)

\* lines 188-195: joining_date_str from a raw field value
format_date(raw) ==
    IF ~Truthy(raw)
    THEN EmptyStr
    ELSE IF raw.t = "str" /\ strptime(raw.s).ok
         THEN StrV(strftime(strptime(raw.s)))
         ELSE raw          \* except Exception: the raw value as it is

joining_date_str(emp) == format_date(Get(emp, "x_studio_joining_date", EmptyStr))

contract_end_date_str(emp) ==
    format_date(Get(emp, "x_studio_contract_end_date", EmptyStr))

-----------------------------------------------------------------------------
(* The secondary lookups.  store.fail[c] is how call c ends: "none" (it    *)
(* answers), "fault" (xmlrpc.client.Fault) or "error" (any other           *)
(* Exception: ProtocolError, OSError).  store.company, store.head and      *)
(* store.partner are the lists the read calls return.                      *)

CommaSpace == <<",", " ">>

\* get_arabic_name without the fallback to the name
get_arabic_name_no_fallback(emp) ==
    StripOf(Get(emp, "x_studio_employee_arabic_name", EmptyStr))

get_arabic_name(emp) ==
    LET name == StripOf(Get(emp, "x_studio_employee_arabic_name", EmptyStr))
    IN  IF name = Raise THEN Raise
        ELSE IF Truthy(name) THEN name
        ELSE StripOf(Get(emp, "name", EmptyStr))

get_partner_address(st, partner_id) ==
    IF st.fail["partner"] # "none" THEN EmptyStr
    ELSE IF st.partner = <<>> THEN EmptyStr
    ELSE LET partner == st.partner[1]
             cid     == partner["country_id"]
             country == IF Truthy(cid)
                        THEN IF cid.t = "list" /\ Len(cid.l) > 1
                             THEN cid.l[2]
                             ELSE StrV(PyStr(cid))
                        ELSE EmptyStr
             address_parts == <<Get(partner, "street", EmptyStr),
                                Get(partner, "street2", EmptyStr),
                                Get(partner, "city", EmptyStr),
                                Get(partner, "zip", EmptyStr),
                                country>>
             kept == SelectSeq(address_parts, Truthy)
         IN  IF \E i \in 1..Len(kept) : kept[i].t # "str"
             THEN EmptyStr      \* ", ".join raises TypeError, caught
             ELSE StrV(join(CommaSpace, [i \in 1..Len(kept) |-> kept[i].s]))

get_arabic_partner_address(st, partner_id) ==
    IF st.fail["partner_arabic"] # "none" THEN EmptyStr
    ELSE IF st.partner = <<>> THEN EmptyStr
    ELSE LET arabic_address == Get(st.partner[1], "x_studio_arabic_address", EmptyStr)
         IN  IF ~Truthy(arabic_address) THEN EmptyStr
             ELSE IF arabic_address.t # "str" THEN EmptyStr   \* AttributeError, caught
             ELSE StrV(strip(arabic_address.s))

get_company_registrar(st, company_id) ==
    IF st.fail["registrar"] # "none" THEN EmptyStr
    ELSE IF st.company = <<>> THEN EmptyStr
    ELSE Get(st.company[1], "company_registry", EmptyStr)

get_company_arabic_name(st, company_id) ==
    IF st.fail["company_arabic"] # "none" THEN EmptyStr
    ELSE IF st.company = <<>> THEN EmptyStr
    ELSE Get(st.company[1], "arabic_name", EmptyStr)

get_head_people_and_culture(st, company_id) ==
    IF st.fail["head"] # "none" THEN EmptyStr
    ELSE IF st.head = <<>> THEN EmptyStr
    ELSE Get(st.head[1], "name", EmptyStr)

get_head_people_and_culture_arabic(st, company_id) ==
    IF st.fail["head_arabic"] # "none" THEN EmptyStr
    ELSE IF st.head = <<>> THEN EmptyStr
    ELSE LET name == get_arabic_name(st.head[1])
         IN  IF name = Raise THEN EmptyStr ELSE name

\* wage_of with no except clause around the contract read
wage_of_uncaught(st) ==
    IF st.fail["contract"] # "none" THEN Raise
    ELSE IF st.contracts # <<>>
         THEN Get(st.contracts[1], "wage", FloatV(0))
         ELSE FloatV(0)

\* lines 178-185: wage, read from hr.contract; only a Fault is caught here
wage_of(st) ==
    IF st.fail["contract"] = "fault" THEN FloatV(0)   \* contracts = []
    ELSE IF st.fail["contract"] = "error" THEN Raise
    ELSE IF st.contracts # <<>>
         THEN Get(st.contracts[1], "wage", FloatV(0))
         ELSE FloatV(0)

\* the address split by comma whether or not it has a newline
derive_country_commas_only(address) ==
    IF address = <<>> THEN <<>>
    ELSE LET parts == SelectSeq([i \in 1..Len(split_sep(address, ",")) |->
                                     strip(split_sep(address, ",")[i])],
                                LAMBDA x : x # <<>>)
         IN  IF parts # <<>> THEN parts[Len(parts)] ELSE <<>>

\* lines 139-149
derive_country_from_address(address) ==
    IF address = <<>> THEN <<>>
    ELSE LET lines == SelectSeq([i \in 1..Len(split_sep(address, "\n")) |->
                                     strip(split_sep(address, "\n")[i])],
                                LAMBDA x : x # <<>>)
             parts == SelectSeq([i \in 1..Len(split_sep(address, ",")) |->
                                     strip(split_sep(address, ",")[i])],
                                LAMBDA x : x # <<>>)
         IN  IF (\E i \in 1..Len(address) : address[i] = "\n") /\ lines # <<>>
             THEN lines[Len(lines)]
             ELSE IF parts # <<>> THEN parts[Len(parts)]
             ELSE <<>>

-----------------------------------------------------------------------------
(* get_employee_by_id                                                      *)

HeadDefault ==                                           \* line 235
    StrV(<<"F", "a", "i", "s", "a", "l", " ", "A", "b", "d", "u", "l", "l", "a", "h", " ", "A", "l", "M", "a", "m", "u", "n">>)
HeadDefaultArabic ==                                     \* line 237
    StrV(<<"U+0641", "U+064A", "U+0635", "U+0644", " ", "U+0639", "U+0628", "U+062F", "U+0627", "U+0644", "U+0644", "U+0647", " ", "U+0627", "U+0644", "U+0645", "U+0623", "U+0645", "U+0648", "U+0646">>)

\* lines 208-213
department_of(emp) ==
    LET department_field == emp["department_id"]
    IN  IF Truthy(department_field) /\ department_field.t = "list"
        THEN IF Len(department_field.l) > 1
             THEN department_field.l[2]
             ELSE StrV(PyStr(department_field.l[1]))
        ELSE IF Truthy(department_field)
             THEN StrV(PyStr(department_field))
             ELSE EmptyStr

\* line 222: the company field is a non-empty list
IsRelation(field) == Truthy(field) /\ field.t = "list" /\ Len(field.l) > 0

\* the company unwrapped without the branch for a relation with no label
company_of_label_only(emp) ==
    LET company_field == emp["company_id"]
    IN  IF IsRelation(company_field) /\ Len(company_field.l) > 1
        THEN company_field.l[2]
        ELSE IF Truthy(company_field) /\ company_field.t # "list"
             THEN StrV(PyStr(company_field))
             ELSE EmptyStr

\* lines 216-231: company
company_of(emp) ==
    LET company_field == emp["company_id"]
    IN  IF IsRelation(company_field)
        THEN IF Len(company_field.l) > 1
             THEN company_field.l[2]
             ELSE StrV(PyStr(company_field.l[1]))
        ELSE IF Truthy(company_field)
             THEN StrV(PyStr(company_field))
             ELSE EmptyStr

\* line 259
first_name_of(emp) ==
    LET name == Get(emp, "name", EmptyStr)
    IN  IF Truthy(emp["name"])
        THEN IF name.t # "str" THEN Raise               \* AttributeError
             ELSE IF split(name.s) = <<>> THEN Raise     \* IndexError
             ELSE StrV(split(name.s)[1])
        ELSE EmptyStr

\* lines 177-275: the dict built from the record read, or Raise when an
\* exception leaves the block.
normalize(emp, st) ==
    LET company_field == emp["company_id"]
        address_field == emp["address_id"]
        company       == company_of(emp)
        by_company    == IsRelation(company_field)
        registrar     == IF by_company
                         THEN get_company_registrar(st, company_field.l[1])
                         ELSE EmptyStr
        arabic_co     == IF by_company
                         THEN get_company_arabic_name(st, company_field.l[1])
                         ELSE EmptyStr
        head          == IF by_company
                         THEN get_head_people_and_culture(st, company_field.l[1])
                         ELSE EmptyStr
        head_arabic   == IF by_company
                         THEN get_head_people_and_culture_arabic(st, company_field.l[1])
                         ELSE EmptyStr
        by_partner    == IsRelation(address_field)
        work_address  == IF by_partner
                         THEN get_partner_address(st, address_field.l[1])
                         ELSE IF Truthy(address_field) /\ address_field.t # "list"
                              THEN StrV(PyStr(address_field))
                              ELSE EmptyStr
        arabic_work_address ==
                         IF by_partner
                         THEN get_arabic_partner_address(st, address_field.l[1])
                         ELSE EmptyStr
        rec == [id                        |-> Get(emp, "id", EmptyStr),
                name                      |-> StripOf(Get(emp, "name", EmptyStr)),
                first_name                |-> first_name_of(emp),
                job_title                 |-> StripOf(Get(emp, "job_title", EmptyStr)),
                identification            |-> StripOf(Get(emp, "identification_id", EmptyStr)),
                wage                      |-> wage_of(st),
                joining_date              |-> joining_date_str(emp),
                contract_end_date         |-> contract_end_date_str(emp),
                department                |-> department_of(emp),
                arabic_name               |-> get_arabic_name(emp),
                company                   |-> company,
                work_address              |-> work_address,
                arabic_work_address       |-> arabic_work_address,
                company_registrar         |-> registrar,
                company_country           |-> IF work_address.t = "str"
                                              THEN StrV(derive_country_from_address(work_address.s))
                                              ELSE Raise,
                company_arabic_name       |-> IF Truthy(arabic_co) THEN arabic_co ELSE company,
                head_people_culture       |-> IF Truthy(head) THEN head ELSE HeadDefault,
                head_people_culture_arabic |-> IF Truthy(head_arabic) THEN head_arabic
                                               ELSE HeadDefaultArabic,
                country                   |-> Absent,
                start_date                |-> Absent,
                end_date                  |-> Absent]
        raised == \/ emp["id"].t = "absent"                       \* employee['id']
                  \/ \E k \in DOMAIN rec : rec[k] = Raise
                  \/ Raise \in {registrar, arabic_co, head, head_arabic,
                                work_address, arabic_work_address}
    IN  IF raised THEN Raise ELSE rec

\* lines 151-278.  st.fields_get: the list fields_get answers holds
\* identification_id; st.employee_ids: how many ids the search finds;
\* st.rows: how many records the read returns.
get_employee_by_id(emp, st) ==
    IF st.fail["fields_get"] # "none" \/ ~st.has_identification_id THEN None
    ELSE IF st.fail["search"] # "none" THEN None
    ELSE IF st.employee_ids = 0 THEN None
    ELSE IF st.fail["read"] # "none" THEN None
    ELSE IF st.rows = 0 THEN None
    ELSE IF normalize(emp, st) = Raise THEN None     \* except Exception
    ELSE normalize(emp, st)

-----------------------------------------------------------------------------
(* The placeholder vocabulary, lines 312-337.  A character outside ASCII   *)
(* is written as its code point.                                           *)

T_CurrentDate == <<"(", "C", "u", "r", "r", "e", "n", "t", " ", "D", "a", "t", "e", ")">>
T_FirstAndLastName == <<"(", "F", "i", "r", "s", "t", " ", "a", "n", "d", " ", "L", "a", "s", "t", " ", "N", "a", "m", "e", ")">>
T_FirstName == <<"(", "F", "i", "r", "s", "t", " ", "N", "a", "m", "e", ")">>
T_Position == <<"(", "P", "o", "s", "i", "t", "i", "o", "n", ")">>
T_Salary == <<"(", "S", "a", "l", "a", "r", "y", ")">>
T_DDMMYYYY == <<"(", "D", "D", "/", "M", "M", "/", "Y", "Y", "Y", "Y", ")">>
T_Country == <<"(", "C", "o", "u", "n", "t", "r", "y", ")">>
T_StartDate == <<"(", "S", "t", "a", "r", "t", " ", "D", "a", "t", "e", ")">>
T_EndDate == <<"(", "E", "n", "d", " ", "D", "a", "t", "e", ")">>
T_Company == <<"(", "C", "o", "m", "p", "a", "n", "y", ")">>
T_Workaddress == <<"(", "W", "o", "r", "k", " ", "a", "d", "d", "r", "e", "s", "s", ")">>
T_WorkAddress == <<"(", "W", "o", "r", "k", " ", "A", "d", "d", "r", "e", "s", "s", ")">>
T_ArabicWorkaddress == <<"(", "A", "r", "a", "b", "i", "c", " ", "W", "o", "r", "k", " ", "a", "d", "d", "r", "e", "s", "s", ")">>
T_CR == <<"(", "C", "R", ")">>
T_CompanyCountry == <<"(", "C", "o", "m", "p", "a", "n", "y", " ", "C", "o", "u", "n", "t", "r", "y", ")">>
T_CompanyA == <<"(", "C", "o", "m", "p", "a", "n", "y", "A", ")">>
T_PC == <<"(", "P", "&", "C", ")">>
T_APC == <<"(", "A", "P", "&", "C", ")">>
T_ArFullName == <<"(", "U+0627", "U+0644", "U+0627", "U+0633", "U+0645", " ", "U+0627", "U+0644", "U+0643", "U+0627", "U+0645", "U+0644", ")">>
T_ArCountry == <<"(", "U+0628", "U+0644", "U+062F", " ", "U+0627", "U+0644", "U+0648", "U+062C", "U+0647", "U+0629", ")">>
T_ArStartDate == <<"(", "U+062A", "U+0627", "U+0631", "U+064A", "U+062E", " ", "U+0627", "U+0644", "U+0628", "U+062F", "U+0627", "U+064A", "U+0629", ")">>
T_ArEndDate == <<"(", "U+062A", "U+0627", "U+0631", "U+064A", "U+062E", " ", "U+0627", "U+0644", "U+0646", "U+0647", "U+0627", "U+064A", "U+0629", ")">>
T_ContractEndDate == <<"(", "C", "o", "n", "t", "r", "a", "c", "t", " ", "E", "n", "d", " ", "D", "a", "t", "e", ")">>
T_Department == <<"(", "D", "e", "p", "a", "r", "t", "m", "e", "n", "t", ")">>


\* datetime.date.today().strftime("%d/%m/%Y"), line 311
current_date == <<"0", "1", "/", "0", "1", "/", "2", "0", "2", "4">>

\* lines 312-338: the placeholder table, in insertion order, every value
\* passed through str().
placeholders(data, arabic) ==
    LET get(key) == PyStr(Get(data, key, EmptyStr))
    IN  << <<T_CurrentDate, current_date>>,
           <<T_FirstAndLastName, PyStr(data["name"])>>,
           <<T_FirstName, PyStr(data["first_name"])>>,
           <<T_Position, PyStr(data["job_title"])>>,
           <<T_Salary, PyStr(data["wage"])>>,
           <<T_DDMMYYYY, PyStr(data["joining_date"])>>,
           <<T_Country, get("country")>>,
           <<T_StartDate, get("start_date")>>,
           <<T_EndDate, get("end_date")>>,
           <<T_Company, get("company")>>,
           <<T_Workaddress, get("work_address")>>,
           <<T_WorkAddress, get("work_address")>>,
           <<T_ArabicWorkaddress, get("arabic_work_address")>>,
           <<T_CR, get("company_registrar")>>,
           <<T_CompanyCountry, get("company_country")>>,
           <<T_CompanyA, get("company_arabic_name")>>,
           <<T_PC, get("head_people_culture")>>,
           <<T_APC, get("head_people_culture_arabic")>>,
           <<T_ArFullName, IF arabic
                           THEN PyStr(Get(data, "arabic_name", data["name"]))
                           ELSE PyStr(data["name"])>>,
           <<T_ArCountry, get("country")>>,
           <<T_ArStartDate, get("start_date")>>,
           <<T_ArEndDate, get("end_date")>>,
           <<T_ContractEndDate, get("contract_end_date")>>,
           <<T_Department, get("department")>> >>

\* the tokens fill_template recognizes
Tokens ==
    {T_CurrentDate, T_FirstAndLastName, T_FirstName, T_Position, T_Salary,
     T_DDMMYYYY, T_Country, T_StartDate, T_EndDate, T_Company, T_Workaddress,
     T_WorkAddress, T_ArabicWorkaddress, T_CR, T_CompanyCountry, T_CompanyA,
     T_PC, T_APC, T_ArFullName, T_ArCountry, T_ArStartDate, T_ArEndDate,
     T_ContractEndDate, T_Department}

-----------------------------------------------------------------------------
(* The document.  A run is [text, font]; a paragraph is the sequence of    *)
(* its runs; a table is a sequence of rows, a row a sequence of cells, a   *)
(* cell [paragraphs, tables]; a section has a header and a footer, each    *)
(* [paragraphs, tables]; the document is [paragraphs, tables, sections].   *)

FooterPt == 8

\* the font of a run python-docx adds: no run properties (size 0: unset)
DefaultFont == [face |-> "inherited", size |-> 0]

\* paragraph.text
ParaText(paragraph) == concat([i \in 1..Len(paragraph) |-> paragraph[i].text])

\* paragraph.text = text: the content is replaced by a single new run
SetParaText(paragraph, text) == <<[text |-> text, font |-> DefaultFont]>>

replace_placeholder_in_paragraph(paragraph, placeholder, replacement) ==
    LET replaced  == \E i \in 1..Len(paragraph) :
                         Contains(paragraph[i].text, placeholder)
        full_text == ParaText(paragraph)
        new_text  == replace(full_text, placeholder, replacement)
    IN  IF replaced
        THEN [i \in 1..Len(paragraph) |->
                 IF Contains(paragraph[i].text, placeholder)
                 THEN [paragraph[i] EXCEPT
                          !.text = replace(@, placeholder, replacement)]
                 ELSE paragraph[i]]
        ELSE IF Contains(full_text, placeholder)
             THEN [i \in 1..Len(paragraph) |->
                      [paragraph[i] EXCEPT
                          !.text = IF i = 1 THEN new_text ELSE <<>>]]
             ELSE paragraph

\* for key, value in placeholders.items():
\*     replace_placeholder_in_paragraph(para, key, value)
RECURSIVE replace_each(_, _, _)
replace_each(para, table, k) ==
    IF k > Len(table) THEN para
    ELSE replace_each(
             replace_placeholder_in_paragraph(para, table[k][1], table[k][2]),
             table, k + 1)

\* lines 364-367: the footer text after every key found in it is replaced
RECURSIVE footer_text(_, _, _)
footer_text(text, table, k) ==
    IF k > Len(table) THEN text
    ELSE footer_text(IF Contains(text, table[k][1])
                     THEN replace(text, table[k][1], table[k][2])
                     ELSE text,
                     table, k + 1)

\* lines 364-370: one footer paragraph
fill_footer_paragraph(para, table) ==
    LET runs == SetParaText(para, footer_text(ParaText(para), table, 1))
    IN  [i \in 1..Len(runs) |-> [runs[i] EXCEPT !.font.size = FooterPt]]

\* for table in tables: for row in table.rows: for cell in row.cells:
\*     for para in cell.paragraphs: every key is replaced in para
\* (cell.tables, the tables nested in a cell, are not visited)
fill_cells(tables, table) ==
    [t \in 1..Len(tables) |->
        [r \in 1..Len(tables[t]) |->
            [c \in 1..Len(tables[t][r]) |->
                [tables[t][r][c] EXCEPT
                    !.paragraphs =
                        [k \in 1..Len(@) |-> replace_each(@[k], table, 1)]]]]]

\* lines 371-381: the same walk over the tables of a footer
fill_footer_cells(tables, table) ==
    [t \in 1..Len(tables) |->
        [r \in 1..Len(tables[t]) |->
            [c \in 1..Len(tables[t][r]) |->
                [tables[t][r][c] EXCEPT
                    !.paragraphs =
                        [k \in 1..Len(@) |-> fill_footer_paragraph(@[k], table)]]]]]

\* for para in paragraphs: every key is replaced in para
fill_paragraphs(paragraphs, table) ==
    [k \in 1..Len(paragraphs) |-> replace_each(paragraphs[k], table, 1)]

\* lines 340-342
fill_body(d, table) ==
    [d EXCEPT !.paragraphs = fill_paragraphs(@, table)]

\* lines 344-349
fill_tables(d, table) ==
    [d EXCEPT !.tables = fill_cells(@, table)]

\* lines 351-360
fill_headers(d, table) ==
    [d EXCEPT !.sections =
        [s \in 1..Len(@) |->
            [@[s] EXCEPT
                !.header.paragraphs = fill_paragraphs(@, table),
                !.header.tables = fill_cells(@, table)]]]

\* lines 362-381
fill_footers(d, table) ==
    [d EXCEPT !.sections =
        [s \in 1..Len(@) |->
            [@[s] EXCEPT
                !.footer.paragraphs =
                    [k \in 1..Len(@) |-> fill_footer_paragraph(@[k], table)],
                !.footer.tables = fill_footer_cells(@, table)]]]

\* lines 383-393: the keys of the second pass over the body, with the
\* employee_data field each is replaced by (not passed through str())
SecondPassKeys ==
    << <<T_CR, "company_registrar">>,
       <<T_CompanyCountry, "company_country">>,
       <<T_CompanyA, "company_arabic_name">>,
       <<T_PC, "head_people_culture">>,
       <<T_APC, "head_people_culture_arabic">> >>

\* one body paragraph through lines 384-393; <<>> paired with TRUE when
\* str.replace raises TypeError on a value that is no str
RECURSIVE second_pass_paragraph(_, _, _)
second_pass_paragraph(para, data, k) ==
    IF k > Len(SecondPassKeys) THEN [raised |-> FALSE, para |-> para]
    ELSE LET key   == SecondPassKeys[k][1]
             value == Get(data, SecondPassKeys[k][2], EmptyStr)
         IN  IF Contains(ParaText(para), key)
             THEN IF value.t # "str"
                  THEN [raised |-> TRUE, para |-> para]
                  ELSE second_pass_paragraph(
                           SetParaText(para, replace(ParaText(para), key, value.s)),
                           data, k + 1)
             ELSE second_pass_paragraph(para, data, k + 1)

second_pass_raises(d, data) ==
    \E k \in 1..Len(d.paragraphs) :
        second_pass_paragraph(d.paragraphs[k], data, 1).raised

second_pass(d, data) ==
    [d EXCEPT !.paragraphs =
        [k \in 1..Len(@) |-> second_pass_paragraph(@[k], data, 1).para]]

\* a test of emptiness that does not strip the text first
is_empty_unstripped(para) == ParaText(para) = <<>>

\* the paragraph is removed: its text is empty or whitespace only
IsBlank(para) == strip(ParaText(para)) = <<>>

remove_empty_paragraphs(d) ==
    [d EXCEPT !.paragraphs = SelectSeq(@, LAMBDA para : ~IsBlank(para))]

\* lines 301-399: None when the file is missing or cannot be parsed, Raise
\* when the second pass raises, else the bytes of the saved document.
fill_template(file, stored, data, arabic) ==
    IF file # "ok" THEN None
    ELSE LET table == placeholders(data, arabic)
             d4    == fill_footers(fill_headers(fill_tables(fill_body(stored,
                          table), table), table), table)
         IN  IF second_pass_raises(d4, data) THEN Raise
             ELSE [docx |-> remove_empty_paragraphs(second_pass(d4, data))]

-----------------------------------------------------------------------------
(* Inputs of the normalizer: raw records and record-store answers.         *)

MaxFailures == 2     \* secondary calls that fail in one request

S_JaneDoe == <<"J", "a", "n", "e", " ", "D", "o", "e">>
S_Engineer == <<"E", "n", "g", "i", "n", "e", "e", "r">>
S_Acme == <<"A", "c", "m", "e">>
S_ArName == <<"U+0623", "U+062D", "U+0645", "U+062F">>
S_ArCompany == <<"U+0623", "U+0643", "U+0645", "U+064A">>
S_ArAddress == <<"U+0639", "U+0645", "U+0627", "U+0646">>
S_Date == <<"2", "0", "2", "3", "-", "0", "5", "-", "0", "1">>
S_DateTime == <<"2", "0", "2", "3", "-", "0", "5", "-", "0", "1", " ", "1", "0", ":", "3", "0", ":", "0", "0">>
S_NotADate == <<"n", "o", "t", "-", "a", "-", "d", "a", "t", "e">>
S_Id == <<"A", "1">>
S_Street == <<"1", "2", " ", "M", "a", "i", "n", " ", "S", "t">>
S_City == <<"A", "m", "m", "a", "n">>
S_Jordan == <<"J", "o", "r", "d", "a", "n">>
S_Registry == <<"C", "R", "-", "7">>
S_Head == <<"H", "u", "d", "a">>
S_Dept == <<"R", "&", "D">>
S_TwoLines == <<"H", "Q", ",", " ", "F", "l", "o", "o", "r", " ", "2", "\n", "D", "u", "b", "a", "i", ",", " ", "U", "A", "E">>

Fields == {"id", "name", "job_title", "x_studio_joining_date",
           "x_studio_employee_arabic_name", "identification_id", "company_id",
           "address_id", "x_studio_contract_end_date", "department_id"}

BaseEmployee ==
    [id                            |-> IntV(7),
     name                          |-> StrV(S_JaneDoe),
     job_title                     |-> StrV(S_Engineer),
     x_studio_joining_date         |-> StrV(S_Date),
     x_studio_employee_arabic_name |-> StrV(S_ArName),
     identification_id             |-> StrV(S_Id),
     company_id                    |-> ListV(<<IntV(5), StrV(S_Acme)>>),
     address_id                    |-> ListV(<<IntV(9), StrV(S_City)>>),
     x_studio_contract_end_date    |-> PyFalse,
     department_id                 |-> ListV(<<IntV(3), StrV(S_Dept)>>)]

\* what a field of the raw record may hold
FieldValues(f) ==
    CASE f = "id" -> {Absent, IntV(7)}
      [] f = "name" ->
            {Absent, None, PyFalse, EmptyStr, StrV(<<" ", " ">>),
             StrV(<<" ">> \o S_JaneDoe \o <<" ">>), StrV(<<"J", "o">>)}
      [] f = "job_title" ->
            {Absent, None, PyFalse, EmptyStr, StrV(<<" ">> \o S_Engineer)}
      [] f = "x_studio_employee_arabic_name" ->
            {Absent, None, PyFalse, EmptyStr, StrV(<<" ", "\t">>),
             StrV(<<" ">> \o S_ArName \o <<" ">>)}
      [] f = "identification_id" -> {Absent, StrV(<<" ">> \o S_Id)}
      [] f \in {"x_studio_joining_date", "x_studio_contract_end_date"} ->
            {Absent, None, PyFalse, EmptyStr, StrV(S_Date), StrV(S_DateTime),
             StrV(S_NotADate), IntV(5)}
      [] f = "address_id" ->
            {Absent, None, PyFalse, ListV(<<IntV(9)>>), StrV(S_TwoLines),
             StrV(S_Street \o <<",", " ">> \o S_City \o <<",", " ">> \o S_Jordan)}
      [] OTHER ->
            {Absent, None, PyFalse, ListV(<<IntV(17)>>), StrV(S_Acme), IntV(17),
             ListV(<<IntV(17), PyFalse>>)}

\* FieldValues(f) and the value BaseEmployee holds
Values(f) == FieldValues(f) \cup {BaseEmployee[f]}

\* raw records over every combination of the scalar fields
ScalarRecords ==
    { [BaseEmployee EXCEPT !.id = a, !.name = b, !.job_title = c,
                           !.x_studio_employee_arabic_name = d,
                           !.identification_id = e] :
        a \in Values("id"), b \in Values("name"), c \in Values("job_title"),
        d \in Values("x_studio_employee_arabic_name"),
        e \in Values("identification_id") }

\* raw records over every combination of the relation fields
RelationRecords ==
    { [BaseEmployee EXCEPT !.company_id = a, !.address_id = b,
                           !.department_id = c] :
        a \in Values("company_id"), b \in Values("address_id"),
        c \in Values("department_id") }

\* raw records over the shapes of the two date fields
DateShapeRecords ==
    { [BaseEmployee EXCEPT !.x_studio_joining_date = a,
                           !.x_studio_contract_end_date = b] :
        a \in Values("x_studio_joining_date"),
        b \in Values("x_studio_contract_end_date") }

\* date strings: year-month-day with a suffix, and others
DateStrings ==
    { y \o <<"-">> \o m \o <<"-">> \o d \o suf :
        y \in {<<"2", "0", "2", "3">>, <<"2", "0", "2", "4">>},
        m \in {<<"0", "5">>, <<"5">>, <<"0", "2">>, <<"1", "2">>, <<"1", "3">>,
               <<"0", "0">>},
        d \in {<<"0", "1">>, <<"1">>, <<"2", "9">>, <<"3", "0">>, <<"3", "1">>,
               <<"3", "2">>, <<"0", "0">>, <<" ", "1">>},
        suf \in {<<>>, <<" ", "1", "0", ":", "3", "0", ":", "0", "0">>, <<" ">>,
                 <<"T", "1", "0", ":", "3", "0">>} }
    \cup {S_NotADate, <<"0", "1", "/", "0", "5", "/", "2", "0", "2", "3">>,
          <<"2", "0", "2", "3", "-", "0", "5">>, <<"2", "3", "-", "0", "5", "-", "0", "1">>}

SecondaryCalls == {"contract", "registrar", "company_arabic", "head",
                   "head_arabic", "partner", "partner_arabic"}
PrimaryCalls == {"fields_get", "search", "read"}

NoFailure == [c \in SecondaryCalls \cup PrimaryCalls |-> "none"]

\* a record store that answers every call with every field filled
RichStore ==
    [fail |-> NoFailure,
     has_identification_id |-> TRUE,
     employee_ids |-> 1,
     rows |-> 1,
     contracts |-> <<[wage |-> FloatV(5000)]>>,
     company |-> <<[company_registry |-> StrV(S_Registry),
                    arabic_name |-> StrV(S_ArCompany)]>>,
     head |-> <<[name |-> StrV(S_Head),
                 x_studio_employee_arabic_name |-> StrV(S_ArName)]>>,
     partner |-> <<[street |-> StrV(S_Street), street2 |-> PyFalse,
                    city |-> StrV(S_City), zip |-> PyFalse,
                    country_id |-> ListV(<<IntV(1), StrV(S_Jordan)>>),
                    x_studio_arabic_address |-> StrV(S_ArAddress \o <<" ">>)]>>]

\* a record store whose optional fields are unset (Odoo answers False)
SparseStore ==
    [RichStore EXCEPT
        !.contracts = <<>>,
        !.company = <<[company_registry |-> PyFalse, arabic_name |-> PyFalse]>>,
        !.head = <<>>,
        !.partner = <<[street |-> PyFalse, street2 |-> PyFalse,
                       city |-> StrV(S_City), zip |-> PyFalse,
                       country_id |-> ListV(<<IntV(1)>>),
                       x_studio_arabic_address |-> PyFalse]>>]

\* a record store with an empty registry and a head without Arabic name
PlainStore ==
    [RichStore EXCEPT
        !.company = <<[company_registry |-> EmptyStr, arabic_name |-> EmptyStr]>>,
        !.head = <<[name |-> StrV(S_Head),
                    x_studio_employee_arabic_name |-> PyFalse]>>]

StoreData == {RichStore, SparseStore, PlainStore}

\* the ways at most k secondary calls fail
RECURSIVE Failures(_)
Failures(k) ==
    IF k = 0 THEN {NoFailure}
    ELSE LET prev == Failures(k - 1)
         IN  prev \cup { [fl EXCEPT ![c] = kind] :
                           fl \in prev, c \in SecondaryCalls,
                           kind \in {"fault", "error"} }

\* the ways the primary calls go wrong
PrimaryStores ==
    { [RichStore EXCEPT !.fail[c] = kind] :
        c \in PrimaryCalls, kind \in {"fault", "error"} }
    \cup { [RichStore EXCEPT !.has_identification_id = FALSE],
           [RichStore EXCEPT !.employee_ids = 0, !.rows = 0],
           [RichStore EXCEPT !.employee_ids = 2, !.rows = 2],
           [RichStore EXCEPT !.rows = 0] }

StoreEmployees ==
    {BaseEmployee,
     [BaseEmployee EXCEPT !.company_id = ListV(<<IntV(17)>>),
                          !.address_id = ListV(<<IntV(9)>>)],
     [BaseEmployee EXCEPT !.company_id = StrV(S_Acme),
                          !.address_id = StrV(S_TwoLines)]}

-----------------------------------------------------------------------------
(* Inputs of the substitution engine: templates and employee data.         *)

MaxRuns == 2         \* runs of a template paragraph
MaxBodyParas == 3    \* body paragraphs of a template

S_Dear == <<"D", "e", "a", "r", " ">>
Faces == <<"Arial", "Times New Roman", "Calibri", "Cambria">>

\* the font of the i-th run of a template paragraph: no two runs of a
\* paragraph share a font, and none has the footer size
FontAt(i) == [face |-> Faces[((i - 1) % Len(Faces)) + 1], size |-> 10 + i]

MakePara(texts) == [i \in 1..Len(texts) |-> [text |-> texts[i], font |-> FontAt(i)]]

\* run texts: whole tokens, the two halves of a token split across runs,
\* plain text and white space
RunTexts == {T_CR, <<"(", "C">>, <<"R", ")">>, T_Position, S_Dear, <<" ">>}

Paras == { MakePara(texts) :
             texts \in UNION { [1..k -> RunTexts] : k \in 0..MaxRuns } }

BodyParas == { MakePara(<<S_Dear>>), MakePara(<<T_CR>>), MakePara(<< <<" ">> >>),
               MakePara(<<<<"(", "C">>, <<"R", ")">>>>),
               MakePara(<<T_ArFullName, <<" ">>>>) }

BodySeqs == UNION { [1..k -> BodyParas] : k \in 0..MaxBodyParas }

\* what the zones hold that a template does not vary: plain text and a token
Filler == MakePara(<<S_Dear, T_PC>>)

Zones == {"body", "table", "nested", "header", "header_table", "header_nested",
          "footer", "footer_table", "footer_nested"}

\* a table of one row and one cell
OneCell(cell) == << <<cell>> >>

\* a cell holding paragraph p and a nested table whose cell holds q
Cell(p, q) ==
    [paragraphs |-> <<p>>,
     tables |-> << OneCell([paragraphs |-> <<q>>, tables |-> <<>>]) >>]

\* a header or footer: a paragraph and a table with a nested table
Part(p, c, n) == [paragraphs |-> <<p>>, tables |-> << OneCell(Cell(c, n)) >>]

\* the document with the given body paragraphs and P[zone] elsewhere
MakeDoc(body, P) ==
    [paragraphs |-> body,
     tables |-> << OneCell(Cell(P["table"], P["nested"])) >>,
     sections |-> << [header |-> Part(P["header"], P["header_table"],
                                      P["header_nested"]),
                      footer |-> Part(P["footer"], P["footer_table"],
                                      P["footer_nested"])] >>]

\* Filler in every zone
AllFiller == [z \in Zones |-> Filler]

\* the templates with paragraph para in one zone and Filler in the others
ZoneDocs ==
    { MakeDoc(IF zone = "body" THEN <<para>> ELSE <<Filler>>,
              [AllFiller EXCEPT ![zone] = para]) :
        zone \in Zones, para \in Paras }

\* the templates with a sequence of body paragraphs
BodyDocs ==
    { MakeDoc(body, AllFiller) : body \in BodySeqs }

EmbassyLetter == "Employment letter to embassies"

\* main, lines 494-501: the travel fields added to the record
set_travel(data, selected_template, country, start_date, end_date) ==
    IF selected_template = EmbassyLetter
    THEN [data EXCEPT !.country = StrV(strip(country)),
                      !.start_date = StrV(strftime(start_date)),
                      !.end_date = StrV(strftime(end_date))]
    ELSE [data EXCEPT !.country = EmptyStr,
                      !.start_date = EmptyStr,
                      !.end_date = EmptyStr]

TravelStart == [ok |-> TRUE, y |-> 2024, m |-> 2, d |-> 1]
TravelEnd == [ok |-> TRUE, y |-> 2024, m |-> 2, d |-> 29]

\* employee data as main hands it to fill_template
FillData ==
    { set_travel(get_employee_by_id(BaseEmployee, RichStore),
                 EmbassyLetter, S_Jordan, TravelStart, TravelEnd),
      set_travel(get_employee_by_id([BaseEmployee EXCEPT !.job_title = EmptyStr],
                                    PlainStore),
                 "Employment letter", <<>>, TravelStart, TravelEnd),
      set_travel(get_employee_by_id(BaseEmployee, SparseStore),
                 "Employment letter", <<>>, TravelStart, TravelEnd) }

EmptyDoc == [paragraphs |-> <<>>, tables |-> <<>>, sections |-> <<>>]

-----------------------------------------------------------------------------
(* The normalizer as a state machine: one lookup per behaviour.            *)

Idle == "idle"

InitRecords ==
    /\ employee \in ScalarRecords \cup RelationRecords \cup DateShapeRecords
    /\ store = RichStore

InitDates ==
    /\ \E d \in DateStrings, e \in {PyFalse, StrV(S_DateTime)} :
          employee = [BaseEmployee EXCEPT
                         !.x_studio_joining_date = StrV(d),
                         !.x_studio_contract_end_date = e]
    /\ store = RichStore

InitStore ==
    /\ employee \in StoreEmployees
    /\ \E data \in StoreData, fl \in Failures(MaxFailures) :
          store = [data EXCEPT !.fail = fl]

InitPrimary ==
    /\ employee = BaseEmployee
    /\ store \in PrimaryStores

InitNorm ==
    /\ pc = "lookup"
    /\ InitRecords \/ InitDates \/ InitStore \/ InitPrimary
    /\ result = Idle
    /\ template_file = Idle /\ template = EmptyDoc /\ doc = EmptyDoc
    /\ employee_data = Idle /\ is_arabic = FALSE /\ doc_bytes = Idle
    /\ session_state = Idle /\ connection_cache = Idle /\ screen = Idle
    /\ args = Idle

GetEmployeeById ==
    /\ pc = "lookup"
    /\ result' = get_employee_by_id(employee, store)
    /\ pc' = "returned"
    /\ UNCHANGED <<employee, store, template_file, template, doc, employee_data,
                   is_arabic, doc_bytes, session_state, connection_cache, screen,
                   args>>

NextNorm == GetEmployeeById

SpecNorm == InitNorm /\ [][NextNorm]_vars

-----------------------------------------------------------------------------
(* fill_template as a state machine: one step per loop of the function.    *)

InitFill ==
    /\ pc = "load"
    /\ employee_data \in FillData
    /\ \/ template \in ZoneDocs /\ is_arabic = FALSE /\ template_file = "ok"
       \/ template \in BodyDocs /\ is_arabic \in BOOLEAN /\ template_file = "ok"
       \/ /\ template = MakeDoc(<<>>, AllFiller)
          /\ is_arabic = FALSE
          /\ template_file \in {"missing", "corrupt"}
    /\ doc = EmptyDoc
    /\ doc_bytes = Idle
    /\ employee = Idle /\ store = Idle /\ result = Idle
    /\ session_state = Idle /\ connection_cache = Idle /\ screen = Idle
    /\ args = Idle

unchanged_by_fill == <<employee, store, result, template_file, template,
                       employee_data, is_arabic, session_state,
                       connection_cache, screen, args>>

\* lines 302-309
LoadTemplate ==
    /\ pc = "load"
    /\ IF template_file = "ok"
       THEN /\ doc' = template
            /\ pc' = "body"
            /\ UNCHANGED doc_bytes
       ELSE /\ doc_bytes' = None
            /\ pc' = "failed"
            /\ UNCHANGED doc
    /\ UNCHANGED unchanged_by_fill

FillBody ==
    /\ pc = "body"
    /\ doc' = fill_body(doc, placeholders(employee_data, is_arabic))
    /\ pc' = "tables"
    /\ UNCHANGED <<doc_bytes, unchanged_by_fill>>

FillTables ==
    /\ pc = "tables"
    /\ doc' = fill_tables(doc, placeholders(employee_data, is_arabic))
    /\ pc' = "headers"
    /\ UNCHANGED <<doc_bytes, unchanged_by_fill>>

FillHeaders ==
    /\ pc = "headers"
    /\ doc' = fill_headers(doc, placeholders(employee_data, is_arabic))
    /\ pc' = "footers"
    /\ UNCHANGED <<doc_bytes, unchanged_by_fill>>

FillFooters ==
    /\ pc = "footers"
    /\ doc' = fill_footers(doc, placeholders(employee_data, is_arabic))
    /\ pc' = "second_pass"
    /\ UNCHANGED <<doc_bytes, unchanged_by_fill>>

\* lines 383-393
SecondPass ==
    /\ pc = "second_pass"
    /\ IF second_pass_raises(doc, employee_data)
       THEN /\ doc_bytes' = Raise
            /\ pc' = "raised"
            /\ UNCHANGED doc
       ELSE /\ doc' = second_pass(doc, employee_data)
            /\ pc' = "cleanup"
            /\ UNCHANGED doc_bytes
    /\ UNCHANGED unchanged_by_fill

\* lines 395-399
RemoveEmptyAndSave ==
    /\ pc = "cleanup"
    /\ doc' = remove_empty_paragraphs(doc)
    /\ doc_bytes' = [docx |-> doc']
    /\ pc' = "filled"
    /\ UNCHANGED unchanged_by_fill

NextFill ==
    \/ LoadTemplate
    \/ FillBody
    \/ FillTables
    \/ FillHeaders
    \/ FillFooters
    \/ SecondPass
    \/ RemoveEmptyAndSave

SpecFill == InitFill /\ [][NextFill]_vars

\* the steps compose to the function main calls
StepsAreFillTemplate ==
    pc \in {"filled", "raised", "failed"}
        => doc_bytes = fill_template(template_file, template, employee_data, is_arabic)

-----------------------------------------------------------------------------
(* main as a state machine: one step per run of the script.  Streamlit     *)
(* runs the script once when the page opens and again on every widget      *)
(* interaction; st.session_state and the st.cache_resource cache outlive   *)
(* the runs, the locals and the rendered page do not.                      *)

\* lines 451-456
template_options ==
    [t \in {"Employment letter - Arabic", "Employment letter",
            EmbassyLetter, "Experience letter"} |->
        CASE t = "Employment letter - Arabic" -> "Employment Letter - ARABIC 1.docx"
          [] t = "Employment letter" -> "Employment Letter 1.docx"
          [] t = EmbassyLetter -> "Employment Letter to Embassies 1.docx"
          [] t = "Experience letter" -> "Experience Letter 1.docx"]

S_Id2 == <<"B", "2">>
S_Unknown == <<"Z", "9">>

\* what the record store holds for an identification number
Directory(identification_no) ==
    IF identification_no = S_Id
    THEN [emp |-> BaseEmployee, st |-> RichStore]
    ELSE IF identification_no = S_Id2
    THEN [emp |-> [BaseEmployee EXCEPT !.name = StrV(<<"J", "o">>),
                                       !.identification_id = StrV(S_Id2)],
          st |-> SparseStore]
    ELSE [emp |-> BaseEmployee,
          st |-> [RichStore EXCEPT !.employee_ids = 0, !.rows = 0]]

IdentificationNumbers == {S_Id, S_Id2, S_Unknown}

\* lines 402-449: countries of the travel details
S_Oman == <<"O", "m", "a", "n">>
Countries == {S_Jordan, S_Oman}

\* the document stored in a template file: two body paragraphs and a footer
TemplateDoc(path) ==
    [paragraphs |-> <<MakePara(<<S_Dear, T_FirstName>>),
                      MakePara(<<IF path = template_options[EmbassyLetter]
                                 THEN T_Country
                                 ELSE IF path = template_options["Employment letter - Arabic"]
                                 THEN T_ArFullName
                                 ELSE T_CR>>)>>,
     tables |-> <<>>,
     sections |-> << [header |-> [paragraphs |-> <<>>, tables |-> <<>>],
                      footer |-> [paragraphs |-> <<Filler>>, tables |-> <<>>]] >>]

\* line 520: the f-string, as its parts
letter_filename(selected_template, data) ==
    <<selected_template, " - ", PyStr(data["name"]), ".docx">>

NoSession == [employee_id |-> Absent, letter_bytes |-> Absent,
              letter_filename |-> Absent]

\* lines 529-535: the download button of a run, Absent when not rendered
download_button(session) ==
    IF session.letter_bytes # Absent
    THEN [data |-> session.letter_bytes, file_name |-> session.letter_filename]
    ELSE Absent

\* lines 465-466
with_employee_id(session) ==
    IF session.employee_id = Absent
    THEN [session EXCEPT !.employee_id = EmptyStr]
    ELSE session

\* lines 23-37: the connection get_odoo_connection returns; st.cache_resource
\* keeps the first return value, (None, None) included
get_odoo_connection(cache, answer) ==
    IF cache # Idle THEN cache ELSE answer

\* the page before the first run of the script
NoScreen == [submitted |-> FALSE, message |-> "closed", download |-> Absent]

InitMain ==
    /\ pc = "page"
    /\ session_state = NoSession
    /\ connection_cache = Idle
    /\ args = Idle
    /\ screen = NoScreen
    /\ employee_data = Absent /\ doc_bytes = Absent
    /\ employee = Idle /\ store = Idle /\ result = Idle
    /\ template_file = Idle /\ template = EmptyDoc /\ doc = EmptyDoc
    /\ is_arabic = FALSE

unchanged_by_main == <<pc, employee, store, result, template_file, template,
                       doc, is_arabic, args>>

\* a run of the script in which the form is not submitted
Rerun ==
    /\ pc = "page"
    /\ session_state' = with_employee_id(session_state)
    /\ screen' = [submitted |-> FALSE, message |-> "none",
                  download |-> download_button(session_state')]
    /\ employee_data' = Absent
    /\ doc_bytes' = Absent
    /\ UNCHANGED <<connection_cache, unchanged_by_main>>

\* a run of the script in which the form is submitted, lines 484-535
SubmitForm ==
    /\ pc = "page"
    /\ screen # NoScreen
    /\ \E selected_template \in DOMAIN template_options,
          identification_no \in IdentificationNumbers,
          country \in Countries,
          answer \in {"connected", "refused"},
          file \in {"ok", "missing", "corrupt"} :
        LET session    == [with_employee_id(session_state) EXCEPT
                              !.employee_id = StrV(identification_no)]
            connection == get_odoo_connection(connection_cache, answer)
            entry      == Directory(identification_no)
        IN
        \E found \in {get_employee_by_id(entry.emp, entry.st)} :
        \E data \in {IF found = None THEN None
                     ELSE set_travel(found, selected_template, country,
                                     TravelStart, TravelEnd)} :
        \E bytes \in {IF data = None THEN None
                      ELSE fill_template(file,
                               TemplateDoc(template_options[selected_template]),
                               data,
                               selected_template = "Employment letter - Arabic")} :
        LET filename == letter_filename(selected_template, data)
        IN  /\ connection_cache' = connection
            /\ IF connection # "connected"
               THEN \* st.error; st.stop()
                    /\ session_state' = session
                    /\ employee_data' = Absent
                    /\ doc_bytes' = Absent
                    /\ screen' = [submitted |-> TRUE,
                                  message |-> "Could not connect to Odoo.",
                                  download |-> Absent]
               ELSE IF found = None
               THEN \* st.error; st.stop()
                    /\ session_state' = session
                    /\ employee_data' = None
                    /\ doc_bytes' = Absent
                    /\ screen' = [submitted |-> TRUE,
                                  message |-> "Could not retrieve employee data.",
                                  download |-> Absent]
               ELSE IF bytes = Raise
               THEN \* the exception ends the run
                    /\ session_state' = session
                    /\ employee_data' = data
                    /\ doc_bytes' = Absent
                    /\ screen' = [submitted |-> TRUE,
                                  message |-> "exception",
                                  download |-> Absent]
               ELSE IF bytes = None
               THEN /\ session_state' = session
                    /\ employee_data' = data
                    /\ doc_bytes' = None
                    /\ screen' = [submitted |-> TRUE,
                                  message |-> "Failed to generate the document.",
                                  download |-> download_button(session_state')]
               ELSE /\ session_state' = [session EXCEPT
                                            !.letter_bytes = bytes,
                                            !.letter_filename = filename]
                    /\ employee_data' = data
                    /\ doc_bytes' = bytes
                    /\ screen' = [submitted |-> TRUE,
                                  message |-> "Employment Letter Generated Successfully!",
                                  download |-> download_button(session_state')]
    /\ UNCHANGED unchanged_by_main

NextMain == Rerun \/ SubmitForm

SpecMain == InitMain /\ [][NextMain]_vars

-----------------------------------------------------------------------------
(* derive_country_from_address called by itself on an address string.      *)

MaxAddressLen == 4   \* characters of an address

\* the characters of an address: a letter, the two separators, white space
AddressChars == {"a", ",", "\n", " "}

\* every address of up to MaxAddressLen characters, and two longer ones
Addresses ==
    UNION { [1..n -> AddressChars] : n \in 0..MaxAddressLen }
        \cup {S_TwoLines, S_Street \o CommaSpace \o S_City \o CommaSpace \o S_Jordan}

unchanged_by_helper == <<employee, store, template_file, template, doc,
                         employee_data, is_arabic, doc_bytes, session_state,
                         connection_cache, screen, args>>

InitCountry ==
    /\ pc = "derive"
    /\ args \in { [address |-> a] : a \in Addresses }
    /\ result = Idle
    /\ employee = Idle /\ store = Idle
    /\ template_file = Idle /\ template = EmptyDoc /\ doc = EmptyDoc
    /\ employee_data = Idle /\ is_arabic = FALSE /\ doc_bytes = Idle
    /\ session_state = Idle /\ connection_cache = Idle /\ screen = Idle

DeriveCountry ==
    /\ pc = "derive"
    /\ result' = derive_country_from_address(args.address)
    /\ pc' = "derived"
    /\ UNCHANGED unchanged_by_helper

NextCountry == DeriveCountry

SpecCountry == InitCountry /\ [][NextCountry]_vars

-----------------------------------------------------------------------------
(* replace_placeholder_in_paragraph called by itself on a paragraph.       *)

MaxParaRuns == 3     \* runs of a paragraph handed to the helper

\* run texts: a whole token, tokens cut at a run boundary, plain text
SplitRunTexts ==
    {T_CR, <<"(", "C">>, <<"R", ")">>, T_CR \o <<"(", "C">>,
     <<"R", ")", "(", "P", "o", "s", "i">>, <<"t", "i", "o", "n", ")">>, S_Dear}

SplitParas ==
    { MakePara(texts) :
        texts \in UNION { [1..k -> SplitRunTexts] : k \in 0..MaxParaRuns } }

InitReplace ==
    /\ pc = "replace"
    /\ args \in { [paragraph |-> p, placeholder |-> k, replacement |-> v] :
                    p \in SplitParas, k \in {T_CR, T_Position},
                    v \in {<<>>, S_Registry} }
    /\ result = Idle
    /\ employee = Idle /\ store = Idle
    /\ template_file = Idle /\ template = EmptyDoc /\ doc = EmptyDoc
    /\ employee_data = Idle /\ is_arabic = FALSE /\ doc_bytes = Idle
    /\ session_state = Idle /\ connection_cache = Idle /\ screen = Idle

ReplacePlaceholder ==
    /\ pc = "replace"
    /\ result' = replace_placeholder_in_paragraph(args.paragraph,
                     args.placeholder, args.replacement)
    /\ pc' = "replaced"
    /\ UNCHANGED unchanged_by_helper

NextReplace == ReplacePlaceholder

SpecReplace == InitReplace /\ [][NextReplace]_vars

-----------------------------------------------------------------------------
(* The loop of lines 341-342 on one paragraph, the keys taken in an order  *)
(* other than the insertion order of the placeholders dict.                *)

NumTokens == Cardinality(Tokens)

InsertionOrder == [i \in 1..NumTokens |-> i]

\* entry k taken first, the others in insertion order
MovedToFront(k) ==
    [i \in 1..NumTokens |-> IF i = 1 THEN k ELSE IF i <= k THEN i - 1 ELSE i]

\* orders of the keys: insertion order, its reverse, one key moved to the front
Orders ==
    {InsertionOrder, [i \in 1..NumTokens |-> NumTokens + 1 - i]}
        \cup { MovedToFront(k) : k \in 1..NumTokens }

\* for key, value in the given order: replace_placeholder_in_paragraph
replace_in_order(para, table, order) ==
    replace_each(para, [i \in 1..Len(order) |-> table[order[i]]], 1)

\* employee data with a value for every key of the two tokens in SplitParas
OrderData ==
    { set_travel(get_employee_by_id(BaseEmployee, RichStore),
                 EmbassyLetter, S_Jordan, TravelStart, TravelEnd) }

InitOrder ==
    /\ pc = "order"
    /\ args \in { [paragraph |-> p, table |-> placeholders(d, FALSE), order |-> o] :
                    p \in SplitParas, d \in OrderData, o \in Orders }
    /\ result = Idle
    /\ employee = Idle /\ store = Idle
    /\ template_file = Idle /\ template = EmptyDoc /\ doc = EmptyDoc
    /\ employee_data = Idle /\ is_arabic = FALSE /\ doc_bytes = Idle
    /\ session_state = Idle /\ connection_cache = Idle /\ screen = Idle

ReplaceInOrder ==
    /\ pc = "order"
    /\ result' = replace_in_order(args.paragraph, args.table, args.order)
    /\ pc' = "ordered"
    /\ UNCHANGED unchanged_by_helper

NextOrder == ReplaceInOrder

SpecOrder == InitOrder /\ [][NextOrder]_vars

-----------------------------------------------------------------------------
(* Properties of the normalizer, checked under SpecNorm.                   *)

\* every primary call answers and finds the record
PrimaryOk(st) ==
    /\ \A c \in PrimaryCalls : st.fail[c] = "none"
    /\ st.has_identification_id
    /\ st.employee_ids >= 1
    /\ st.rows >= 1

NoSecondaryFailure(st) == \A c \in SecondaryCalls : st.fail[c] = "none"

\* the identity of the record is there: an id, a name with a token in it
\* and the identification number the search matched
IdentityPresent(emp) ==
    /\ emp["id"].t = "int"
    /\ emp["name"].t = "str"
    /\ strip(emp["name"].s) # <<>>
    /\ emp["identification_id"].t = "str"

\* the optional text fields and the canonical field each one fills
OptionalText ==
    { <<"job_title", "job_title">>,
      <<"x_studio_joining_date", "joining_date">>,
      <<"x_studio_contract_end_date", "contract_end_date">>,
      <<"department_id", "department">>,
      <<"company_id", "company">>,
      <<"address_id", "work_address">> }

\* C3: a matched record whose identity is present is always normalized,
\* whatever optional fields are absent, None or of an unexpected type, and
\* every optional field that is absent or None comes out as the empty string.
C3_OptionalFieldsNeverFail ==
    (pc = "returned" /\ PrimaryOk(store) /\ NoSecondaryFailure(store)
        /\ IdentityPresent(employee))
    => /\ result # None
       /\ \A p \in OptionalText :
              employee[p[1]] \in {Absent, None} => result[p[2]] = EmptyStr

\* the first whitespace-delimited token of s, <<>> when there is none
FirstToken(s) ==
    LET t == lstrip(s)
        n == IF \E i \in 1..Len(t) : t[i] \in Whitespace
             THEN (CHOOSE i \in 1..Len(t) :
                      t[i] \in Whitespace
                      /\ \A j \in 1..(i - 1) : t[j] \notin Whitespace) - 1
             ELSE Len(t)
    IN  SubSeq(t, 1, n)

\* the record is BaseEmployee but for its name, a str or no key at all
OnlyNameVaries(emp) ==
    /\ emp = [BaseEmployee EXCEPT !.name = emp["name"]]
    /\ emp["name"].t \in {"str", "absent"}

\* C7: first_name is the first whitespace-delimited token of the name, the
\* empty string when the name is empty or white space only, and computing
\* it never makes normalization fail.
C7_FirstNameIsFirstToken ==
    (pc = "returned" /\ PrimaryOk(store) /\ NoSecondaryFailure(store)
        /\ OnlyNameVaries(employee))
    => /\ result # None
       /\ result.first_name = StrV(FirstToken(Get(employee, "name", EmptyStr).s))

\* s is YYYY-MM-DD: two-digit month and day, a day the calendar has
IsIsoDate(s) ==
    /\ Len(s) = 10
    /\ \A i \in {1, 2, 3, 4, 6, 7, 9, 10} : IsDigit(s[i])
    /\ s[5] = "-" /\ s[8] = "-"
    /\ StrInt(SubSeq(s, 1, 4)) >= 1
    /\ StrInt(SubSeq(s, 6, 7)) \in 1..12
    /\ StrInt(SubSeq(s, 9, 10)) >= 1
    /\ StrInt(SubSeq(s, 9, 10))
          <= DaysInMonth(StrInt(SubSeq(s, 1, 4)), StrInt(SubSeq(s, 6, 7)))

\* s is YYYY-MM-DD, alone or followed by a space and a time of day
IsIsoDateOrDateTime(s) ==
    \/ IsIsoDate(s)
    \/ Len(s) > 11 /\ IsIsoDate(SubSeq(s, 1, 10)) /\ s[11] = " "

\* DD/MM/YYYY from YYYY-MM-DD...
DayMonthYear(s) ==
    SubSeq(s, 9, 10) \o <<"/">> \o SubSeq(s, 6, 7) \o <<"/">> \o SubSeq(s, 1, 4)

\* DD/MM/YYYY for a date, the empty string for none, else the value as given
ExpectedDate(raw) ==
    IF raw.t \in {"absent", "none", "bool"} \/ raw = EmptyStr THEN EmptyStr
    ELSE IF raw.t = "str" /\ IsIsoDateOrDateTime(raw.s) THEN StrV(DayMonthYear(raw.s))
    ELSE raw

\* the record is BaseEmployee but for its two date fields
OnlyDatesVary(emp) ==
    emp = [BaseEmployee EXCEPT
              !.x_studio_joining_date = emp["x_studio_joining_date"],
              !.x_studio_contract_end_date = emp["x_studio_contract_end_date"]]

DateFields ==
    { <<"x_studio_joining_date", "joining_date">>,
      <<"x_studio_contract_end_date", "contract_end_date">> }

\* C6: a date in YYYY-MM-DD form, with or without a time of day after a
\* space, comes out as DD/MM/YYYY; a string that cannot be parsed comes out
\* unchanged; an empty or absent one comes out as the empty string; and
\* normalization does not fail on a date.
C6_DatesAreReformatted ==
    (pc = "returned" /\ PrimaryOk(store) /\ NoSecondaryFailure(store)
        /\ OnlyDatesVary(employee))
    => /\ result # None
       /\ \A p \in DateFields :
              LET raw == employee[p[1]]
              IN  (raw.t = "str" /\ ~IsIsoDateOrDateTime(raw.s) /\ strptime(raw.s).ok)
                  \/ result[p[2]] = ExpectedDate(raw)

\* the configured Arabic-name aliases, in order (line 49)
ArabicNameAliases == <<"x_studio_employee_arabic_name">>

\* the trimmed value of the first alias, from the k-th on, that is a
\* non-empty string after trimming; <<>> when there is none
RECURSIVE FirstAlias(_, _)
FirstAlias(emp, k) ==
    IF k > Len(ArabicNameAliases) THEN <<>>
    ELSE LET v == emp[ArabicNameAliases[k]]
         IN  IF v.t = "str" /\ strip(v.s) # <<>> THEN strip(v.s)
             ELSE FirstAlias(emp, k + 1)

C10_WitnessAlias ==
    /\ pc = "returned" /\ result # None
    /\ employee["x_studio_employee_arabic_name"] = StrV(<<" ">> \o S_ArName \o <<" ">>)
    /\ result.arabic_name = StrV(S_ArName)

\* the secondary calls that fail
FailingCalls(st) == {c \in SecondaryCalls : st.fail[c] # "none"}

\* what get_employee_by_id returns when no secondary call fails
Baseline == get_employee_by_id(employee, [store EXCEPT !.fail = NoFailure])

\* the canonical field a secondary call fills
FieldOf(c) ==
    CASE c = "contract"       -> "wage"
      [] c = "registrar"      -> "company_registrar"
      [] c = "company_arabic" -> "company_arabic_name"
      [] c = "head"           -> "head_people_culture"
      [] c = "head_arabic"    -> "head_people_culture_arabic"
      [] c = "partner"        -> "work_address"
      [] c = "partner_arabic" -> "arabic_work_address"

\* its empty, zero or fixed default
DefaultOf(c) ==
    CASE c = "contract"    -> FloatV(0)
      [] c = "head"        -> HeadDefault
      [] c = "head_arabic" -> HeadDefaultArabic
      [] OTHER             -> EmptyStr

\* the call is made for this record: the company lookups need a company
\* relation, the partner lookups an address relation
CallMade(c, emp) ==
    CASE c = "contract" -> TRUE
      [] c \in {"partner", "partner_arabic"} -> IsRelation(emp["address_id"])
      [] OTHER -> IsRelation(emp["company_id"])

\* exactly call c fails; the contract read fails by being rejected (a Fault)
OnlyFails(c) ==
    /\ pc = "returned"
    /\ PrimaryOk(store)
    /\ Baseline # None
    /\ FailingCalls(store) = {c}
    /\ c = "contract" => store.fail[c] = "fault"

\* the canonical fields a failing call degrades: the one it fills, and
\* company_country, which is derived from the work address
DegradedBy(c) ==
    IF c = "partner" THEN {"work_address", "company_country"} ELSE {FieldOf(c)}

\* what a degraded field holds: its empty, zero or fixed default, and for
\* the company's Arabic name the company label (line 227)
DegradedValue(c) ==
    IF c = "company_arabic" THEN Baseline.company ELSE DefaultOf(c)

\* C4 as stated: when one secondary call fails, a record is still returned,
\* only the one field the call fills is degraded to its default, and every
\* other field holds the value it has without the failure.
C4_OnlyOneFieldDegraded ==
    \A c \in SecondaryCalls :
        OnlyFails(c)
        => /\ result # None
           /\ \A k \in DOMAIN result :
                  result[k] = IF k = FieldOf(c) /\ CallMade(c, employee)
                              THEN DegradedValue(c)
                              ELSE Baseline[k]

\* C4, amended: when one secondary call fails, a record is still returned;
\* the field the call fills holds its default (the empty string, wage 0.0,
\* the fixed head names, the company label for the company's Arabic name),
\* company_country is empty with the work address it is derived from, and
\* every other field holds the value it has without the failure.
C4_FailureIsolation ==
    \A c \in SecondaryCalls :
        OnlyFails(c)
        => /\ result # None
           /\ \A k \in DOMAIN result :
                  result[k] = IF k \in DegradedBy(c) /\ CallMade(c, employee)
                              THEN DegradedValue(c)
                              ELSE Baseline[k]

\* the partner read fails with a connection error: the address and the
\* country derived from it are empty, the record is returned
C4_Witness ==
    /\ OnlyFails("partner")
    /\ store.fail["partner"] = "error"
    /\ CallMade("partner", employee)
    /\ Baseline.company_country = StrV(S_Jordan)
    /\ result # None
    /\ result.work_address = EmptyStr
    /\ result.company_country = EmptyStr
    /\ result.arabic_work_address = Baseline.arabic_work_address

-----------------------------------------------------------------------------
(* Properties of the substitution engine, checked under SpecFill.          *)

\* the paragraphs of the cells of the tables, the tables nested in the
\* cells included, in document order
RECURSIVE ParagraphsOfTables(_)
ParagraphsOfTables(tables) ==
    concat([t \in 1..Len(tables) |->
        concat([r \in 1..Len(tables[t]) |->
            concat([c \in 1..Len(tables[t][r]) |->
                tables[t][r][c].paragraphs
                    \o ParagraphsOfTables(tables[t][r][c].tables)])])])

ParagraphsOfPart(part) == part.paragraphs \o ParagraphsOfTables(part.tables)

HeaderParagraphs(d) ==
    concat([s \in 1..Len(d.sections) |-> ParagraphsOfPart(d.sections[s].header)])

FooterParagraphs(d) ==
    concat([s \in 1..Len(d.sections) |-> ParagraphsOfPart(d.sections[s].footer)])

\* every paragraph of the document, in body, tables, headers and footers
AllParagraphs(d) ==
    d.paragraphs \o ParagraphsOfTables(d.tables)
        \o HeaderParagraphs(d) \o FooterParagraphs(d)

HasToken(para) == \E tok \in Tokens : Contains(ParaText(para), tok)

EveryParagraphHasToken(d) ==
    \A k \in 1..Len(AllParagraphs(d)) : HasToken(AllParagraphs(d)[k])

\* C1: when every paragraph of the template contains a recognized token, no
\* paragraph of the filled document contains one: not in the body, not in a
\* table cell (cells of nested tables included), not in headers or footers.
C1_NoTokenRemains ==
    (pc = "filled" /\ EveryParagraphHasToken(template))
        => \A k \in 1..Len(AllParagraphs(doc)) : ~HasToken(AllParagraphs(doc)[k])

\* the first character of run i of the paragraph, in the paragraph's text
RunStart(para, i) == Len(concat([j \in 1..(i - 1) |-> para[j].text])) + 1

\* run i of the paragraph holds a character of an occurrence of a token
TouchesToken(para, i) ==
    LET text == ParaText(para)
        a    == RunStart(para, i)
        b    == a + Len(para[i].text) - 1
    IN  \E tok \in Tokens :
            \E s \in 1..(Len(text) - Len(tok) + 1) :
                /\ SubSeq(text, s, s + Len(tok) - 1) = tok
                /\ s <= b
                /\ a <= s + Len(tok) - 1

\* the runs of the template paragraph that hold no part of a token are in
\* the filled paragraph, at their place, with their text and their font
RunsPreserved(before, after, footer) ==
    \A i \in 1..Len(before) :
        ~TouchesToken(before, i)
            => /\ i <= Len(after)
               /\ after[i].text = before[i].text
               /\ after[i].font.face = before[i].font.face
               /\ \/ after[i].font.size = before[i].font.size
                  \/ footer /\ after[i].font.size = FooterPt

ParagraphsPreserved(before, after, footer) ==
    /\ Len(after) = Len(before)
    /\ \A k \in 1..Len(before) : RunsPreserved(before[k], after[k], footer)

\* C2: every run of the template that contains no token has the same text
\* and font in the filled document, in the body (where no paragraph was
\* removed), the table cells, the headers and the footers; a footer run may
\* have its size set to the footer size.
C2_TokenFreeRunsUnchanged ==
    pc = "filled"
        => /\ Len(doc.paragraphs) = Len(template.paragraphs)
                => ParagraphsPreserved(template.paragraphs, doc.paragraphs, FALSE)
           /\ ParagraphsPreserved(ParagraphsOfTables(template.tables),
                                  ParagraphsOfTables(doc.tables), FALSE)
           /\ ParagraphsPreserved(HeaderParagraphs(template),
                                  HeaderParagraphs(doc), FALSE)
           /\ ParagraphsPreserved(FooterParagraphs(template),
                                  FooterParagraphs(doc), TRUE)

\* the text is empty or holds white space only
BlankText(text) == \A i \in 1..Len(text) : text[i] \in Whitespace

NonBlankIndexes(paragraphs) ==
    {i \in 1..Len(paragraphs) : ~BlankText(ParaText(paragraphs[i]))}

\* the index of the j-th paragraph whose text is not blank
NthNonBlank(paragraphs, j) ==
    CHOOSE i \in NonBlankIndexes(paragraphs) :
        Cardinality({k \in NonBlankIndexes(paragraphs) : k <= i}) = j

\* after holds the non-blank paragraphs of before, all of them, in order
KeptInOrder(before, after) ==
    /\ Len(after) = Cardinality(NonBlankIndexes(before))
    /\ \A j \in 1..Len(after) : after[j] = before[NthNonBlank(before, j)]

\* C8: the paragraph sequence of the document fill_template returns holds no
\* paragraph whose final text is empty or white space only, and holds every
\* paragraph whose final text is not blank, in the original relative order.
C8_BlankParagraphsRemoved ==
    [][pc' = "filled"
          => /\ doc_bytes'.docx = doc'
             /\ \A k \in 1..Len(doc'.paragraphs) :
                    ~BlankText(ParaText(doc'.paragraphs[k]))
             /\ KeptInOrder(doc.paragraphs, doc'.paragraphs)]_vars

\* a returned document whose template has a paragraph that is only a token
\* resolved to the empty string, a white-space paragraph, and text around
C8_Witness ==
    /\ pc = "filled"
    /\ Get(employee_data, "company_registrar", EmptyStr) = EmptyStr
    /\ template.paragraphs = <<MakePara(<<S_Dear>>), MakePara(<<T_CR>>),
                               MakePara(<<T_ArFullName, <<" ">>>>)>>
    /\ Len(doc.paragraphs) = 2

\* a returned document whose template has a white-space paragraph
C8_WitnessWhitespace ==
    /\ pc = "filled"
    /\ \E k \in 1..Len(template.paragraphs) :
           template.paragraphs[k] = MakePara(<< <<" ">> >>)
    /\ Len(doc.paragraphs) < Len(template.paragraphs)
    /\ Len(doc.paragraphs) > 0

\* C9: in the filled document every run of every footer paragraph, the
\* paragraphs of the footer's table cells included, has the footer size.
C9_FooterRunsHaveFooterSize ==
    pc = "filled"
        => \A k \in 1..Len(FooterParagraphs(doc)) :
               \A i \in 1..Len(FooterParagraphs(doc)[k]) :
                   FooterParagraphs(doc)[k][i].font.size = FooterPt

-----------------------------------------------------------------------------
(* Properties of main, checked under SpecMain.                             *)

\* the letter the run produced: the bytes fill_template returned
ProducedLetter == doc_bytes \notin {Absent, None, Raise}

\* C5: the letter offered for download after a request is the one that
\* request produced; a request that fails (no connection, no record,
\* template missing or corrupt) leaves no earlier letter on offer.
C5_OnlyLatestLetterOffered ==
    (screen.submitted /\ screen.download # Absent)
        => /\ ProducedLetter
           /\ screen.download.data = doc_bytes

-----------------------------------------------------------------------------
(* Relation fields, checked under SpecNorm.                                *)

\* the rule for a relation field: the label of (id, label), the id as a
\* string for (id,), a scalar as a string, the empty string for none
Unwrapped(field) ==
    IF field.t = "list" /\ Len(field.l) > 1 THEN field.l[2]
    ELSE IF field.t = "list" /\ Len(field.l) = 1 THEN StrV(PyStr(field.l[1]))
    ELSE IF ~Truthy(field) THEN EmptyStr
    ELSE StrV(PyStr(field))

\* C11 as stated: company, department and address are unwrapped by the
\* same rule: (id, label) gives the label, (id,) the id as a string, a
\* scalar the scalar as a string, an absent value the empty string.
C11_SameRuleForAllThree ==
    (pc = "returned" /\ result # None)
        => /\ result.company = Unwrapped(employee["company_id"])
           /\ result.department = Unwrapped(employee["department_id"])
           /\ result.work_address = Unwrapped(employee["address_id"])

\* C11, amended: company and department are unwrapped by the rule; the
\* address follows it for a scalar and for an absent value, and an address
\* delivered as a relation gives the postal address of the partner with
\* that id, read from the record store.
C11_RelationUnwrapping ==
    (pc = "returned" /\ result # None)
        => /\ result.company = Unwrapped(employee["company_id"])
           /\ result.department = Unwrapped(employee["department_id"])
           /\ LET address_field == employee["address_id"]
              IN  result.work_address =
                      IF address_field.t = "list" /\ Len(address_field.l) > 0
                      THEN get_partner_address(store, address_field.l[1])
                      ELSE Unwrapped(address_field)

\* a company delivered as (id,), a department as (id, label) and an address
\* as (id, label) whose partner has a postal address other than the label
C11_Witness ==
    /\ pc = "returned" /\ result # None
    /\ employee["company_id"] = ListV(<<IntV(17)>>)
    /\ result.company = StrV(<<"1", "7">>)
    /\ employee["department_id"] = ListV(<<IntV(3), StrV(S_Dept)>>)
    /\ result.department = StrV(S_Dept)
    /\ employee["address_id"] = ListV(<<IntV(9), StrV(S_City)>>)
    /\ result.work_address \notin {StrV(S_City), EmptyStr}

-----------------------------------------------------------------------------
(* Country derivation, checked under SpecCountry.                          *)

\* the separator of the address: the newline when it has one, else the comma
SeparatorOf(address) ==
    IF \E k \in 1..Len(address) : address[k] = "\n" THEN "\n" ELSE ","

\* s without the white space at its ends
Trimmed(s) ==
    LET ink == {k \in 1..Len(s) : s[k] \notin Whitespace}
    IN  IF ink = {} THEN <<>>
        ELSE SubSeq(s, CHOOSE k \in ink : \A m \in ink : k <= m,
                       CHOOSE k \in ink : \A m \in ink : m <= k)

\* <<i, j>> for every segment address[i..j] between separators that holds
\* a character other than white space
NonEmptySegments(address) ==
    LET sep == SeparatorOf(address)
    IN  { ij \in (1..Len(address)) \X (1..Len(address)) :
            /\ ij[1] <= ij[2]
            /\ \A k \in ij[1]..ij[2] : address[k] # sep
            /\ ij[1] = 1 \/ address[ij[1] - 1] = sep
            /\ ij[2] = Len(address) \/ address[ij[2] + 1] = sep
            /\ \E k \in ij[1]..ij[2] : address[k] \notin Whitespace }

LastSegment(address) ==
    LET segs == NonEmptySegments(address)
    IN  IF segs = {} THEN <<>>
        ELSE LET last == CHOOSE ij \in segs : \A other \in segs : other[1] <= ij[1]
             IN  Trimmed(SubSeq(address, last[1], last[2]))

\* C12: derive_country_from_address returns the last non-empty trimmed
\* segment of the address, split by newline when the address has a newline
\* and by comma otherwise, and the empty string when the address is empty
\* or has no non-empty segment.
C12_CountryIsLastSegment ==
    pc = "derived" => result = LastSegment(args.address)

\* an address with a newline and commas: the last line, its comma kept
C12_Witness ==
    /\ pc = "derived"
    /\ args.address = <<"a", "\n", "a", ",">>
    /\ result = <<"a", ",">>

\* an address of commas: the last segment that is not blank, trimmed
C12_WitnessCommas ==
    /\ pc = "derived"
    /\ args.address = <<"a", ",", " ", "a">>
    /\ result = <<"a">>

\* a newline and nothing but white space: the empty string
C12_WitnessBlank ==
    /\ pc = "derived"
    /\ args.address = <<" ", "\n", " ">>
    /\ result = <<>>

-----------------------------------------------------------------------------
(* The two tiers of replacement, checked under SpecReplace.                *)

\* some run of the paragraph contains the token
SomeRunContains(paragraph, placeholder) ==
    \E i \in 1..Len(paragraph) : Contains(paragraph[i].text, placeholder)

\* C13: after replace_placeholder_in_paragraph the text of the paragraph is
\* its text before with every occurrence of the token replaced, whether the
\* occurrence is in one run or split across runs; and every run is replaced
\* in place, nothing moved to the first run, when a run contained the token.
C13_EveryOccurrenceReplaced ==
    pc = "replaced"
        => /\ ParaText(result) = replace(ParaText(args.paragraph),
                                         args.placeholder, args.replacement)
           /\ SomeRunContains(args.paragraph, args.placeholder)
                  => /\ Len(result) = Len(args.paragraph)
                     /\ \A i \in 1..Len(result) :
                            result[i].text = replace(args.paragraph[i].text,
                                args.placeholder, args.replacement)

-----------------------------------------------------------------------------
(* Order of the replacements, checked under SpecOrder.                     *)

\* no token is a substring of another
TokensDoNotOverlap ==
    \A a \in Tokens : \A b \in Tokens : a # b => ~Contains(b, a)

\* replacing one key in the paragraph neither creates nor destroys an
\* occurrence of another token in its text
StepKeepsOtherTokens(paragraph, table) ==
    \A k \in 1..Len(table) :
        \A after \in {ParaText(replace_placeholder_in_paragraph(paragraph,
                           table[k][1], table[k][2]))} :
            \A tok \in Tokens \ {table[k][1]} :
                Contains(after, tok) <=> Contains(ParaText(paragraph), tok)

\* C14: the replacements applied in any order of the tokens give the final
\* paragraph text the insertion order gives; no token is a substring of
\* another, and no replacement creates or destroys an occurrence of a
\* different token.
C14_OrderIndependent ==
    pc = "ordered"
        => /\ ParaText(result)
                  = ParaText(replace_in_order(args.paragraph, args.table,
                                              InsertionOrder))
           /\ TokensDoNotOverlap
           /\ StepKeepsOtherTokens(args.paragraph, args.table)

====
